---------------------------- MODULE Spec2Model ----------------------------
(***************************************************************************)
(* Model of pyglottolog/references/bibfiles_db.py: loading .bib files into *)
(* the SQLite store, hashing the entries and assigning ids (split/merge).  *)
(*                                                                         *)
(* Text values (file names, bibkeys, field values, hashes) are sequences   *)
(* of code points, so that SQL's ORDER BY on text, Python's sorted() and   *)
(* difflib's character alignment are computed and not assumed.  SQL NULL   *)
(* is NULL for the integer columns and the empty text for Entry.hash       *)
(* (the column's CHECK forbids the empty string as a value).  The float    *)
(* arithmetic of distance() is modelled by exact fractions.                *)
(***************************************************************************)
EXTENDS Integers, Sequences, FiniteSets, TLC

(***************************************************************************)
(* Bounds of the model.                                                    *)
(***************************************************************************)
\* number of entries of the corpus the sources hold
MaxEntries == 4
\* largest glottolog_ref_id a source entry carries on input
MaxRefid == 3
\* entries per hashing window (chunksize=500 in generate_hashes, scaled to
\* the corpus size of the model)
HashChunkSize == 2
\* number of entries of the sources that change between calls
SourceEntries == 2
\* largest mtime and size a changed source gets
MaxMtime == 2
MaxSize == 2
\* number of changes the sources go through
MaxChanges == 2
\* entries of a corpus the views are taken of
ViewEntries == 3
\* largest chunksize of __iter__
MaxChunk == 2

(***************************************************************************)
(* Text.                                                                   *)
(***************************************************************************)
CodePoint ==
    [c \in {" ", "#", ",", ".", "0", "1", "2", "3", "4", "5", "6", "7", "8",
            "9", "a", "b", "c", "i", "m", "x", "y", "z", "w"} |->
        CASE c = " " -> 32 [] c = "#" -> 35 [] c = "," -> 44 [] c = "." -> 46
          [] c = "0" -> 48 [] c = "1" -> 49 [] c = "2" -> 50 [] c = "3" -> 51
          [] c = "4" -> 52 [] c = "5" -> 53 [] c = "6" -> 54 [] c = "7" -> 55
          [] c = "8" -> 56 [] c = "9" -> 57 [] c = "a" -> 97 [] c = "b" -> 98
          [] c = "c" -> 99 [] c = "i" -> 105 [] c = "m" -> 109
          [] c = "w" -> 119
          [] c = "x" -> 120 [] c = "y" -> 121 [] c = "z" -> 122]

\* the text with the given characters
Txt(chars) == [i \in 1..Len(chars) |-> CodePoint[chars[i]]]

\* a < b in the binary collation of SQLite and in Python's str ordering
RECURSIVE TextLess(_, _)
TextLess(a, b) ==
    IF b = <<>> THEN FALSE
    ELSE IF a = <<>> THEN TRUE
    ELSE IF Head(a) # Head(b) THEN Head(a) < Head(b)
    ELSE TextLess(Tail(a), Tail(b))

\* sorted(S) for a set of texts
RECURSIVE sorted(_)
sorted(S) ==
    IF S = {} THEN <<>>
    ELSE LET m == CHOOSE x \in S : \A y \in S : x = y \/ TextLess(x, y)
         IN  <<m>> \o sorted(S \ {m})

\* sep.join(seq)
RECURSIVE join(_, _)
join(s, seq) ==
    IF seq = <<>> THEN <<>>
    ELSE IF Len(seq) = 1 THEN seq[1]
    ELSE seq[1] \o s \o join(s, Tail(seq))

\* f'{n:d}' and str(n) for n >= 0
RECURSIVE itoa(_)
itoa(n) ==
    IF n < 10 THEN <<48 + n>>
    ELSE itoa(n \div 10) \o <<48 + (n % 10)>>

\* the INTEGER affinity of Entry.refid: the number a decimal text denotes
RECURSIVE atoi(_)
atoi(t) ==
    IF t = <<>> THEN 0
    ELSE 10 * atoi(SubSeq(t, 1, Len(t) - 1)) + (t[Len(t)] - 48)

(***************************************************************************)
(* Program constants.                                                      *)
(***************************************************************************)
NULL == 0
NoHash == <<>>

UNION_FIELDS == {"fn", "asjp_name", "isbn"}
IGNORE_FIELDS == {"crossref", "numnote", "glotto_id"}
REF_ID_FIELD == "glottolog_ref_id"
ENTRYTYPE == "ENTRYTYPE"

sep == Txt(<<",", " ">>)
bibsuffix == Txt(<<".", "b", "i", "b">>)

\* _compat.removesuffix
removesuffix(t, suffix) ==
    IF Len(t) >= Len(suffix)
       /\ SubSeq(t, Len(t) - Len(suffix) + 1, Len(t)) = suffix
    THEN SubSeq(t, 1, Len(t) - Len(suffix))
    ELSE t

(***************************************************************************)
(* difflib.SequenceMatcher(None, a, b).ratio(): the longest matching block *)
(* (earliest in a, then earliest in b, among the longest), then the same   *)
(* to its left and to its right; ratio = 2 * matches / (len(a) + len(b)).  *)
(* A ratio is the pair <<numerator, denominator>>.                         *)
(***************************************************************************)
RECURSIVE Ext(_, _, _, _, _, _)
Ext(a, b, i, j, ahi, bhi) ==
    IF i > ahi \/ j > bhi THEN 0
    ELSE IF a[i] # b[j] THEN 0
    ELSE 1 + Ext(a, b, i + 1, j + 1, ahi, bhi)

RECURSIVE ScanJ(_, _, _, _, _, _, _)
ScanJ(a, b, i, j, ahi, bhi, best) ==
    IF j > bhi THEN best
    ELSE LET k == Ext(a, b, i, j, ahi, bhi)
             nb == IF k > best[3] THEN <<i, j, k>> ELSE best
         IN  IF nb[3] = 0 THEN ScanJ(a, b, i, j + 1, ahi, bhi, best)
             ELSE ScanJ(a, b, i, j + 1, ahi, bhi, nb)

RECURSIVE ScanI(_, _, _, _, _, _, _)
ScanI(a, b, i, blo, ahi, bhi, best) ==
    IF i > ahi THEN best
    ELSE LET nb == ScanJ(a, b, i, blo, ahi, bhi, best)
         IN  IF nb[3] = 0 THEN ScanI(a, b, i + 1, blo, ahi, bhi, best)
             ELSE ScanI(a, b, i + 1, blo, ahi, bhi, nb)

find_longest_match(a, b, alo, ahi, blo, bhi) ==
    ScanI(a, b, alo, blo, ahi, bhi, <<alo, blo, 0>>)

RECURSIVE matches(_, _, _, _, _, _)
matches(a, b, alo, ahi, blo, bhi) ==
    IF alo > ahi \/ blo > bhi THEN 0
    ELSE LET m == find_longest_match(a, b, alo, ahi, blo, bhi)
         IN  IF m[3] = 0 THEN 0
             ELSE m[3]
                  + matches(a, b, alo, m[1] - 1, blo, m[2] - 1)
                  + matches(a, b, m[1] + m[3], ahi, m[2] + m[3], bhi)

ratio(a, b) ==
    IF Len(a) + Len(b) = 0 THEN <<1, 1>>
    ELSE <<2 * matches(a, b, 1, Len(a), 1, Len(b)), Len(a) + Len(b)>>

(***************************************************************************)
(* Fractions.                                                              *)
(***************************************************************************)
RECURSIVE gcd(_, _)
gcd(m, n) == IF n = 0 THEN m ELSE gcd(n, m % n)

frac(n, d) == LET g == gcd(n, d) IN <<n \div g, d \div g>>
fadd(p, q) == frac(p[1] * q[2] + q[1] * p[2], p[2] * q[2])
fless(p, q) == p[1] * q[2] < q[1] * p[2]

(***************************************************************************)
(* distance(left, right): field maps are functions from field names to     *)
(* text.                                                                   *)
(***************************************************************************)
weight(k) ==
    IF k \in {"author", "year", "title"} THEN 3
    ELSE IF k = ENTRYTYPE THEN 2
    ELSE 1

RECURSIVE sum_weights(_)
sum_weights(keys) ==
    IF keys = {} THEN 0
    ELSE LET k == CHOOSE x \in keys : TRUE
         IN  weight(k) + sum_weights(keys \ {k})

RECURSIVE sum_ratios(_, _, _)
sum_ratios(left, right, keys) ==
    IF keys = {} THEN <<0, 1>>
    ELSE LET k == CHOOSE x \in keys : TRUE
             r == ratio(left[k], right[k])
         IN  fadd(frac(weight(k) * r[1], r[2]),
                  sum_ratios(left, right, keys \ {k}))

\* distance that is 0 for dicts without a common key
distance_common(left, right) ==
    LET keys == DOMAIN left \cap DOMAIN right
    IN  IF keys = {} THEN <<0, 1>>
        ELSE LET s == sum_ratios(left, right, keys)
                 w == sum_weights(keys)
             IN  frac(s[2] * w - s[1], s[2] * w)

distance(left, right) ==
    IF DOMAIN left = {} /\ DOMAIN right = {} THEN <<0, 1>>
    ELSE LET keys == DOMAIN left \cap DOMAIN right
         IN  IF keys = {} THEN <<1, 1>>
             ELSE LET s == sum_ratios(left, right, keys)
                      w == sum_weights(keys)
                  IN  frac(s[2] * w - s[1], s[2] * w)

(***************************************************************************)
(* The store: the tables file, entry and value, rows indexed by their pk.  *)
(* A store that does not exist on disk has exists = FALSE.                 *)
(***************************************************************************)
NoDb == [exists |-> FALSE, file |-> <<>>, entry |-> <<>>, value |-> <<>>]

\* registry.metadata.create_all on a new file: the three empty tables
create_all(s) ==
    IF s.exists THEN s
    ELSE [exists |-> TRUE, file |-> <<>>, entry |-> <<>>, value |-> <<>>]

pks(s) == 1..Len(s.entry)

filename(s, pk) == s.file[s.entry[pk].file_pk].name
priority(s, pk) == s.file[s.entry[pk].file_pk].priority

(***************************************************************************)
(* File.same_as / is_uptodate                                              *)
(***************************************************************************)
\* {name: (size, mtime)} of a sequence of files: a dict, in which the last
\* item with a name stays
sizes_mtimes(files) ==
    [n \in {files[i].name : i \in 1..Len(files)} |->
        LET last == CHOOSE i \in 1..Len(files) :
                        /\ files[i].name = n
                        /\ \A j \in (i + 1)..Len(files) : files[j].name # n
        IN  <<files[last].size, files[last].mtime>>]

ondisk(bibfiles) == sizes_mtimes(bibfiles)

indb(s) == sizes_mtimes(s.file)

\* same_as that compares the names and the sizes, not the mtimes
same_as_sizes(s, bibfiles) ==
    /\ DOMAIN ondisk(bibfiles) = DOMAIN indb(s)
    /\ \A n \in DOMAIN indb(s) : ondisk(bibfiles)[n][1] = indb(s)[n][1]

\* same_as that compares the names only
same_as_names(s, bibfiles) ==
    DOMAIN ondisk(bibfiles) = DOMAIN indb(s)

same_as(s, bibfiles) == ondisk(bibfiles) = indb(s)

(***************************************************************************)
(* import_bibfiles                                                         *)
(***************************************************************************)
\* the rows import_bibfiles inserts, in order: <<index of the file, entry>>
RECURSIVE iterentries(_, _)
iterentries(bibfiles, i) ==
    IF i > Len(bibfiles) THEN <<>>
    ELSE [j \in 1..Len(bibfiles[i].entries) |-> <<i, bibfiles[i].entries[j]>>]
         \o iterentries(bibfiles, i + 1)

\* the values of an entry without its glottolog_ref_id
entry_values_without_id(e) ==
    (ENTRYTYPE :> e.type)
    @@ [f \in DOMAIN e.fields \ {REF_ID_FIELD} |-> e.fields[f]]

\* the (field, value) pairs inserted for an entry: chain([(ENTRYTYPE,
\* e.type)], e.fields.items())
entry_values(e) == (ENTRYTYPE :> e.type) @@ e.fields

import_bibfiles(s, bibfiles) ==
    LET rows == iterentries(bibfiles, 1)
        nf == Len(s.file)
    IN  [exists |-> s.exists,
         file |-> s.file \o
             [i \in 1..Len(bibfiles) |->
                 [name |-> bibfiles[i].name, size |-> bibfiles[i].size,
                  mtime |-> bibfiles[i].mtime,
                  priority |-> bibfiles[i].priority]],
         entry |-> s.entry \o
             [i \in 1..Len(rows) |->
                 [file_pk |-> nf + rows[i][1],
                  bibkey |-> rows[i][2].key,
                  refid |-> IF REF_ID_FIELD \in DOMAIN rows[i][2].fields
                            THEN atoi(rows[i][2].fields[REF_ID_FIELD])
                            ELSE NULL,
                  hash |-> NoHash, srefid |-> NULL, id |-> NULL]],
         value |-> s.value \o
             [i \in 1..Len(rows) |->
                 entry_values(rows[i][2])]]

\* integrity with UNIQUE (bibkey) in the place of UNIQUE (file_pk, bibkey)
integrity_bibkey(s) ==
    /\ \A i, j \in 1..Len(s.file) : s.file[i].name = s.file[j].name => i = j
    /\ \A i \in 1..Len(s.file) : s.file[i].name # <<>> /\ s.file[i].size > 0
    /\ \A p, q \in pks(s) : s.entry[p].bibkey = s.entry[q].bibkey => p = q
    /\ \A p \in pks(s) : s.entry[p].bibkey # <<>> /\ s.entry[p].refid >= 0

\* the constraints of the tables file and entry (an IntegrityError otherwise)
integrity(s) ==
    /\ \A i, j \in 1..Len(s.file) : s.file[i].name = s.file[j].name => i = j
    /\ \A i \in 1..Len(s.file) : s.file[i].name # <<>> /\ s.file[i].size > 0
    /\ \A p, q \in pks(s) :
        (s.entry[p].file_pk = s.entry[q].file_pk
         /\ s.entry[p].bibkey = s.entry[q].bibkey) => p = q
    /\ \A p \in pks(s) : s.entry[p].bibkey # <<>> /\ s.entry[p].refid >= 0

(***************************************************************************)
(* generate_hashes                                                         *)
(***************************************************************************)
\* libmonster.keyid, a collaborator that is not part of the sources: a key
\* from the normalized title, in which white space does not count; entries
\* without a title share one key.  The word frequencies it is given are not
\* used by the model.
keyid(fields) ==
    IF "title" \in DOMAIN fields
    THEN SelectSeq(fields["title"], LAMBDA c : c # 32)
    ELSE Txt(<<"m">>)

\* windowed_entries: per file, the <<first, last>> pk of each chunk
windowed_entries(s, chunksize) ==
    UNION {
        LET mine == {p \in pks(s) : s.entry[p].file_pk = f}
            nth(n) == CHOOSE p \in mine :
                          Cardinality({q \in mine : q < p}) = n - 1
            len == Cardinality(mine)
        IN  {<<nth((c - 1) * chunksize + 1),
               nth(IF c * chunksize < len THEN c * chunksize ELSE len)>> :
                c \in 1..((len + chunksize - 1) \div chunksize)}
        : f \in 1..Len(s.file)}

\* the fields select_bfv yields for an entry: all but the ENTRYTYPE
hashfields(s, pk) ==
    [f \in DOMAIN s.value[pk] \ {ENTRYTYPE} |-> s.value[pk][f]]

generate_hashes(s) ==
    LET windows == windowed_entries(s, HashChunkSize)
        visited == {p \in pks(s) :
                       /\ \E w \in windows : w[1] <= p /\ p <= w[2]
                       /\ DOMAIN hashfields(s, p) # {}}
    IN  [s EXCEPT !.entry =
            [p \in pks(s) |->
                IF p \in visited
                THEN [s.entry[p] EXCEPT !.hash = keyid(hashfields(s, p))]
                ELSE s.entry[p]]]

allhash(s) == \A p \in pks(s) : s.entry[p].hash # NoHash

(***************************************************************************)
(* Merged views: _merged_entrygrp(conn, key) with raw=True                 *)
(***************************************************************************)
\* before that orders by filename and bibkey only
before_name(s, p, q) ==
    \/ TextLess(filename(s, p), filename(s, q))
    \/ /\ filename(s, p) = filename(s, q)
       /\ TextLess(s.entry[p].bibkey, s.entry[q].bibkey)

\* ORDER BY File.priority DESC, filename, bibkey
before(s, p, q) ==
    \/ priority(s, p) > priority(s, q)
    \/ /\ priority(s, p) = priority(s, q)
       /\ \/ TextLess(filename(s, p), filename(s, q))
          \/ /\ filename(s, p) = filename(s, q)
             /\ TextLess(s.entry[p].bibkey, s.entry[q].bibkey)

RECURSIVE ordered(_, _)
ordered(s, members) ==
    IF members = {} THEN <<>>
    ELSE LET m == CHOOSE p \in members :
                      \A q \in members : p = q \/ ~before(s, q, p)
         IN  <<m>> \o ordered(s, members \ {m})

\* util.unique: the distinct items in the order of their first occurrence
RECURSIVE unique(_)
unique(seq) ==
    IF seq = <<>> THEN <<>>
    ELSE LET front == unique(SubSeq(seq, 1, Len(seq) - 1))
             x == seq[Len(seq)]
         IN  IF \E i \in 1..Len(front) : front[i] = x THEN front
             ELSE Append(front, x)

\* merged_entry that joins the sorted distinct values of a union field
merged_entry_sorted(s, members) ==
    LET allfields == UNION {DOMAIN s.value[p] : p \in members}
        rows == ordered(s, members)
        having(f) == SelectSeq(rows, LAMBDA p : f \in DOMAIN s.value[p])
        values(f) == LET h == having(f)
                     IN  [i \in 1..Len(h) |-> s.value[h[i]][f]]
        fields == [f \in allfields \ IGNORE_FIELDS |->
                      IF f \notin UNION_FIELDS THEN values(f)[1]
                      ELSE join(sep, sorted({values(f)[i] :
                                                i \in 1..Len(values(f))}))]
        src == {removesuffix(filename(s, p), bibsuffix) : p \in members}
        srctrickle == {removesuffix(filename(s, p), bibsuffix)
                           \o <<35>> \o s.entry[p].bibkey : p \in members}
    IN  ("src" :> join(sep, sorted(src)))
        @@ ("srctrickle" :> join(sep, sorted(srctrickle)))
        @@ fields

\* the view of the entries ``members``
merged_entry(s, members) ==
    LET allfields == UNION {DOMAIN s.value[p] : p \in members}
        rows == ordered(s, members)
        having(f) == SelectSeq(rows, LAMBDA p : f \in DOMAIN s.value[p])
        values(f) == LET h == having(f)
                     IN  [i \in 1..Len(h) |-> s.value[h[i]][f]]
        fields == [f \in allfields \ IGNORE_FIELDS |->
                      IF f \notin UNION_FIELDS THEN values(f)[1]
                      ELSE join(sep, unique(values(f)))]
        src == {removesuffix(filename(s, p), bibsuffix) : p \in members}
        srctrickle == {removesuffix(filename(s, p), bibsuffix)
                           \o <<35>> \o s.entry[p].bibkey : p \in members}
    IN  ("src" :> join(sep, sorted(src)))
        @@ ("srctrickle" :> join(sep, sorted(srctrickle)))
        @@ fields

\* key is an int: the entries with Entry.refid == key
by_refid(s, key) == {p \in pks(s) : s.entry[p].refid = key}
\* key is a str: the entries with Entry.hash == key
by_hash(s, key) == {p \in pks(s) : s.entry[p].hash = key}

(***************************************************************************)
(* assign_ids, stage by stage.  Comparisons with NULL are not true in SQL, *)
(* so every = and != below holds of values that are not NULL only.         *)
(***************************************************************************)
\* min that returns the last of the items with the smallest distance
RECURSIVE last_min(_, _, _, _)
last_min(cand, dist, i, best) ==
    IF i > Len(cand) THEN cand[best]
    ELSE IF fless(dist[best], dist[i]) THEN last_min(cand, dist, i + 1, best)
    ELSE last_min(cand, dist, i + 1, i)

\* min(cand, key=...) for the items cand with the distances dist: the first
\* of the items with the smallest distance
RECURSIVE first_min(_, _, _, _)
first_min(cand, dist, i, best) ==
    IF i > Len(cand) THEN cand[best]
    ELSE IF fless(dist[i], dist[best]) THEN first_min(cand, dist, i + 1, i)
    ELSE first_min(cand, dist, i + 1, best)

\* ascending order of a set of integers
RECURSIVE ascending(_)
ascending(S) ==
    IF S = {} THEN <<>>
    ELSE LET m == CHOOSE x \in S : \A y \in S : x <= y
         IN  <<m>> \o ascending(S \ {m})

\* ORDER BY ... DESC of a set of integers
RECURSIVE descending(_)
descending(S) ==
    IF S = {} THEN <<>>
    ELSE LET m == CHOOSE x \in S : \A y \in S : y <= x
         IN  <<m>> \o descending(S \ {m})

\* reset_entries with srefid = NULL in the place of srefid = refid
reset_entries_null(s) ==
    [s EXCEPT !.entry =
        [p \in pks(s) |->
            [s.entry[p] EXCEPT !.id = NULL, !.srefid = NULL]]]

\* reset_entries
reset_entries(s) ==
    [s EXCEPT !.entry =
        [p \in pks(s) |->
            [s.entry[p] EXCEPT !.id = NULL, !.srefid = s.entry[p].refid]]]

\* distance(view, p[1]) for the candidates (key, merged_entrygrp(key)), the
\* keys being hashes
RECURSIVE hash_distances(_, _, _)
hash_distances(s, view, cand) ==
    IF cand = <<>> THEN <<>>
    ELSE <<distance(view, merged_entry(s, by_hash(s, Head(cand))))>>
         \o hash_distances(s, view, Tail(cand))

\* the same, the keys being refids
RECURSIVE refid_distances(_, _, _)
refid_distances(s, view, cand) ==
    IF cand = <<>> THEN <<>>
    ELSE <<distance(view, merged_entry(s, by_refid(s, Head(cand))))>>
         \o refid_distances(s, view, Tail(cand))

\* the rows of select_split
select_split(s) ==
    {p \in pks(s) : \E q \in pks(s) :
        /\ s.entry[p].refid # NULL
        /\ s.entry[q].refid = s.entry[p].refid
        /\ s.entry[p].hash # NoHash /\ s.entry[q].hash # NoHash
        /\ s.entry[q].hash # s.entry[p].hash}

\* ``new`` of the split loop for the group of ``refid``
split_new(s, refid) ==
    LET group == {p \in select_split(s) : s.entry[p].refid = refid}
        old == merged_entry(s, by_refid(s, refid))
        cand == sorted({s.entry[p].hash : p \in group})
    IN  first_min(cand, hash_distances(s, old, cand), 1, 1)

\* resolve_splits with update_split bound to parameters that match no row
resolve_splits_unmatched(s) == s

\* the split loop with update_split
resolve_splits(s) ==
    LET refids == {s.entry[p].refid : p \in select_split(s)}
        new == {<<r, split_new(s, r)>> : r \in refids}
    IN  [s EXCEPT !.entry =
            [p \in pks(s) |->
                IF /\ s.entry[p].refid \in refids
                   /\ s.entry[p].hash # NoHash
                   /\ <<s.entry[p].refid, s.entry[p].hash>> \notin new
                THEN [s.entry[p] EXCEPT !.srefid = NULL]
                ELSE s.entry[p]]]

nosplits(s) ==
    ~ \E p, q \in pks(s) :
        /\ s.entry[p].srefid # NULL
        /\ s.entry[q].srefid = s.entry[p].srefid
        /\ s.entry[p].hash # NoHash /\ s.entry[q].hash # NoHash
        /\ s.entry[q].hash # s.entry[p].hash

\* the rows of select_merge
select_merge(s) ==
    {p \in pks(s) : \E q \in pks(s) :
        /\ s.entry[p].hash # NoHash
        /\ s.entry[q].hash = s.entry[p].hash
        /\ s.entry[p].srefid # NULL /\ s.entry[q].srefid # NULL
        /\ s.entry[q].srefid # s.entry[p].srefid}

\* merge_old with the srefids of all hashes as candidates: the highest
merge_old_any_hash(s, hash) ==
    LET srefids == {s.entry[p].srefid : p \in pks(s)}
    IN  CHOOSE m \in srefids : \A r \in srefids : r <= m

\* merge_old with the candidates in ascending order of srefid
merge_old_ascending(s, hash) ==
    LET group == {p \in select_merge(s) : s.entry[p].hash = hash}
        new == merged_entry(s, by_hash(s, hash))
        cand == ascending({s.entry[p].srefid : p \in group})
    IN  first_min(cand, refid_distances(s, new, cand), 1, 1)

\* ``old`` of the merge loop for the group of ``hash``
merge_old(s, hash) ==
    LET group == {p \in select_merge(s) : s.entry[p].hash = hash}
        new == merged_entry(s, by_hash(s, hash))
        cand == descending({s.entry[p].srefid : p \in group})
    IN  first_min(cand, refid_distances(s, new, cand), 1, 1)

\* the merge loop with update_merge
resolve_merges(s) ==
    LET hashes == {s.entry[p].hash : p \in select_merge(s)}
        old == {<<h, merge_old(s, h)>> : h \in hashes}
    IN  [s EXCEPT !.entry =
            [p \in pks(s) |->
                IF /\ s.entry[p].hash \in hashes
                   /\ s.entry[p].srefid # NULL
                   /\ <<s.entry[p].hash, s.entry[p].srefid>> \notin old
                THEN [s.entry[p] EXCEPT !.id =
                        (CHOOSE o \in old : o[1] = s.entry[p].hash)[2]]
                ELSE s.entry[p]]]

update_unchanged(s) ==
    [s EXCEPT !.entry =
        [p \in pks(s) |->
            IF s.entry[p].id = NULL /\ s.entry[p].srefid # NULL
            THEN [s.entry[p] EXCEPT !.id = s.entry[p].srefid]
            ELSE s.entry[p]]]

nomerges(s) ==
    ~ \E p, q \in pks(s) :
        /\ s.entry[p].hash # NoHash
        /\ s.entry[q].hash = s.entry[p].hash
        /\ s.entry[p].id # NULL /\ s.entry[q].id # NULL
        /\ s.entry[q].id # s.entry[p].id

\* identified_rows without the correlation of the subquery on the hash
identified_rows_any_hash(s, p) ==
    {q \in pks(s) : s.entry[p].hash # NoHash /\ s.entry[q].id # NULL}

\* the rows the subquery of update_identified selects for the entry p
identified_rows(s, p) ==
    {q \in pks(s) : /\ s.entry[p].hash # NoHash
                    /\ s.entry[q].hash = s.entry[p].hash
                    /\ s.entry[q].id # NULL}

\* identified without the condition Entry.refid == NULL
identified_separated(s) ==
    {p \in pks(s) : identified_rows(s, p) # {}}

\* identified with Entry.srefid == NULL in the place of Entry.refid == NULL
identified_detached(s) ==
    {p \in pks(s) : s.entry[p].srefid = NULL /\ identified_rows(s, p) # {}}

\* the entries update_identified changes
identified(s) ==
    {p \in pks(s) : s.entry[p].refid = NULL /\ identified_rows(s, p) # {}}

\* update_identified, ``other`` naming the row the scalar subquery returns
\* for each entry it changes (SQL leaves open which one of several)
update_identified(s, other) ==
    [s EXCEPT !.entry =
        [p \in pks(s) |->
            IF p \in identified(s)
            THEN [s.entry[p] EXCEPT !.id = s.entry[other[p]].id]
            ELSE s.entry[p]]]

\* nextid without the + 1
nextid_max(s) ==
    LET refids == {s.entry[p].refid : p \in pks(s)} \cup {0}
    IN  CHOOSE m \in refids : \A r \in refids : r <= m

\* select_nextid
nextid(s) ==
    LET refids == {s.entry[p].refid : p \in pks(s)} \cup {0}
    IN  (CHOOSE m \in refids : \A r \in refids : r <= m) + 1

\* select_new restricted to the entries that never had an id
select_new_unidentified(s) ==
    sorted({s.entry[p].hash :
               p \in {q \in pks(s) : s.entry[q].id = NULL
                                     /\ s.entry[q].refid = NULL}})

\* select_new without its WHERE clause
select_new_all(s) ==
    sorted({s.entry[p].hash : p \in pks(s)})

\* select_new with ORDER BY hash DESC
select_new_descending(s) ==
    LET new == sorted({s.entry[p].hash :
                          p \in {q \in pks(s) : s.entry[q].id = NULL}})
    IN  [i \in 1..Len(new) |-> new[Len(new) + 1 - i]]

\* select_new: the hashes of the entries without id, in ascending order
select_new(s) ==
    sorted({s.entry[p].hash : p \in {q \in pks(s) : s.entry[q].id = NULL}})

\* update_new with nextid for every hash instead of the enumeration
update_new_same_id(s) ==
    LET new == select_new(s)
    IN  [s EXCEPT !.entry =
            [p \in pks(s) |->
                IF \E i \in 1..Len(new) : new[i] = s.entry[p].hash
                THEN [s.entry[p] EXCEPT !.id = nextid(s)]
                ELSE s.entry[p]]]

\* update_new with the ids enumerated from nextid
update_new(s) ==
    LET new == select_new(s)
        first == nextid(s)
    IN  [s EXCEPT !.entry =
            [p \in pks(s) |->
                IF \E i \in 1..Len(new) : new[i] = s.entry[p].hash
                THEN [s.entry[p] EXCEPT !.id =
                        first + (CHOOSE i \in 1..Len(new) :
                                    new[i] = s.entry[p].hash) - 1]
                ELSE s.entry[p]]]

allid(s) == \A p \in pks(s) : s.entry[p].id # NULL

\* Entry.onetoone; the comparison of other.id with cls.hash converts the
\* text of the hash to a number when it is one
onetoone(s) ==
    ~ \E p, q \in pks(s) :
        \/ /\ s.entry[p].hash # NoHash
           /\ s.entry[q].hash = s.entry[p].hash
           /\ s.entry[p].id # NULL /\ s.entry[q].id # NULL
           /\ s.entry[q].id # s.entry[p].id
        \/ /\ s.entry[q].id # NULL /\ s.entry[p].hash # NoHash
           /\ itoa(s.entry[q].id) = s.entry[p].hash
           /\ s.entry[q].hash # NoHash
           /\ s.entry[q].hash # s.entry[p].hash

(***************************************************************************)
(* Indexable.__getitem__                                                   *)
(***************************************************************************)
\* (entrytype, fields) of a dict of fields: fields.pop(ENTRYTYPE), fields
popped(key, fields) ==
    <<"entry", key, fields[ENTRYTYPE],
      [f \in DOMAIN fields \ {ENTRYTYPE} |-> fields[f]]>>

\* _entry(conn, filename, bibkey) as __getitem__ returns or raises it
entry(s, name, bibkey) ==
    LET found == {p \in pks(s) : filename(s, p) = name
                                 /\ s.entry[p].bibkey = bibkey}
    IN  IF found = {} THEN <<"KeyError", <<name, bibkey>>>>
        ELSE popped(<<name, bibkey>>, s.value[CHOOSE p \in found : TRUE])

\* _merged_entrygrp without the check for an empty group
merged_entrygrp_unchecked(s, key, members) ==
    IF members = {} THEN <<"entry", key, <<>>, merged_entry(s, members)>>
    ELSE popped(key, merged_entry(s, members))

\* _merged_entrygrp(conn, key=key, raw=False) for the entries the key
\* selects, as __getitem__ returns or raises it
merged_entrygrp(s, key, members) ==
    IF members = {} THEN <<"KeyError", key>>
    ELSE popped(key, merged_entry(s, members))

(***************************************************************************)
(* BaseDatabase.__iter__ and Entry.windowed                                *)
(***************************************************************************)
\* the names of the fields of the model in the order of the binary
\* collation, for ORDER BY field
FieldNames == <<"ENTRYTYPE", "fn", "glottolog_ref_id", "title">>

field_rank(f) == CHOOSE i \in 1..Len(FieldNames) : FieldNames[i] = f

\* result.scalars().partitions(size) of a sequence of keys: (keys[0],
\* keys[-1]) of every chunk
RECURSIVE partitions(_, _)
partitions(keys, size) ==
    IF keys = <<>> THEN <<>>
    ELSE LET n == IF Len(keys) < size THEN Len(keys) ELSE size
         IN  <<<<keys[1], keys[n]>>>>
             \o partitions(SubSeq(keys, n + 1, Len(keys)), size)

\* windowed that yields (keys[0], keys[0])
windowed_first(s, size) ==
    LET w == partitions(ascending({s.entry[p].id : p \in pks(s)}), size)
    IN  [i \in 1..Len(w) |-> <<w[i][1], w[i][1]>>]

\* Entry.windowed(conn, key_column='id', size=size)
windowed(s, size) ==
    partitions(ascending({s.entry[p].id : p \in pks(s)}), size)

\* ORDER BY id, field, File.priority DESC, filename, bibkey of the rows
\* <<pk, field>> of select_values
row_before(s, r, q) ==
    \/ s.entry[r[1]].id < s.entry[q[1]].id
    \/ /\ s.entry[r[1]].id = s.entry[q[1]].id
       /\ \/ field_rank(r[2]) < field_rank(q[2])
          \/ r[2] = q[2] /\ before(s, r[1], q[1])

RECURSIVE ordered_rows(_, _)
ordered_rows(s, rows) ==
    IF rows = {} THEN <<>>
    ELSE LET m == CHOOSE r \in rows :
                      \A q \in rows : r = q \/ ~row_before(s, q, r)
         IN  <<m>> \o ordered_rows(s, rows \ {m})

\* select_values for a window
select_values(s, first, last) ==
    ordered_rows(s, {r \in pks(s) \X {FieldNames[i] :
                                          i \in 1..Len(FieldNames)} :
                        /\ first <= s.entry[r[1]].id
                        /\ s.entry[r[1]].id <= last
                        /\ r[2] \in DOMAIN s.value[r[1]]})

\* itertools.groupby(result, key=attrgetter('id', 'hash')): the runs of rows
\* with one (id, hash), as <<id, hash, rows>>
RECURSIVE groupby_id_hash(_, _)
groupby_id_hash(s, rows) ==
    IF rows = <<>> THEN <<>>
    ELSE LET e == s.entry[rows[1][1]]
             same(r) == /\ s.entry[r[1]].id = e.id
                        /\ s.entry[r[1]].hash = e.hash
             n == CHOOSE k \in 1..Len(rows) :
                      /\ \A i \in 1..k : same(rows[i])
                      /\ k < Len(rows) => ~same(rows[k + 1])
         IN  <<<<e.id, e.hash, SubSeq(rows, 1, n)>>>>
             \o groupby_id_hash(s, SubSeq(rows, n + 1, Len(rows)))

\* what the loop of lines 149-154 yields for the windows from the i-th on
RECURSIVE iter_windows(_, _, _)
iter_windows(s, windows, i) ==
    IF i > Len(windows) THEN <<>>
    ELSE groupby_id_hash(s, select_values(s, windows[i][1], windows[i][2]))
         \o iter_windows(s, windows, i + 1)

\* Database.__iter__(chunksize=chunksize)
iter(s, chunksize) == iter_windows(s, windowed(s, chunksize), 1)

(***************************************************************************)
(* Exportable.to_replacements                                              *)
(***************************************************************************)
\* the rows of select_pairs: Entry.id != Entry.refid, one row per entry
select_pairs(s) ==
    {p \in pks(s) : /\ s.entry[p].id # NULL /\ s.entry[p].refid # NULL
                    /\ s.entry[p].id # s.entry[p].refid}

\* the orders ORDER BY replacement allows for the rows
pairs_orders(s) ==
    LET rows == select_pairs(s)
        n == Cardinality(rows)
    IN  {o \in [1..n -> rows] :
            /\ \A i, j \in 1..n : o[i] = o[j] => i = j
            /\ \A i, j \in 1..n :
                  i < j => s.entry[o[i]].id <= s.entry[o[j]].id}

\* repls.extend(map(dict, pairs)) on the default [] of a new file
replacements(s, order) ==
    [i \in 1..Len(order) |->
        [id |-> s.entry[order[i]].refid,
         replacement |-> s.entry[order[i]].id]]

(***************************************************************************)
(* Exportable.trickle                                                      *)
(***************************************************************************)
\* changed without the coalesce: Entry.id != Entry.refid
changed_not_null(s, p) ==
    /\ s.entry[p].id # NULL
    /\ s.entry[p].refid # NULL
    /\ s.entry[p].id # s.entry[p].refid

\* changed: Entry.id != coalesce(Entry.refid, -1)
changed(s, p) ==
    /\ s.entry[p].id # NULL
    /\ s.entry[p].id # (IF s.entry[p].refid = NULL THEN -1
                        ELSE s.entry[p].refid)

\* select_files: the pks of the files with a changed entry, by filename
select_files(s) ==
    LET pkset == {f \in 1..Len(s.file) :
                     \E p \in pks(s) : s.entry[p].file_pk = f /\ changed(s, p)}
        names == sorted({s.file[f].name : f \in pkset})
    IN  [i \in 1..Len(names) |->
            CHOOSE f \in pkset : s.file[f].name = names[i]]

\* select_changed for a file: the pks of its changed entries
select_changed(s, file_pk) ==
    {p \in pks(s) : s.entry[p].file_pk = file_pk /\ changed(s, p)}

\* cast(Entry.refid, Text) and cast(Entry.id, Text), None for NULL
cast_text(n) == IF n = NULL THEN <<>> ELSE itoa(n)

\* fields.pop(ref_id_field, None)
old_id(fields) ==
    IF REF_ID_FIELD \in DOMAIN fields THEN fields[REF_ID_FIELD] ELSE <<>>

\* bibfiles[filename]
bibfile(sources, name) ==
    CHOOSE i \in 1..Len(sources) : sources[i].name = name

\* entries[bibkey] of a loaded source
loaded(bf, bibkey) ==
    CHOOSE j \in 1..Len(bf.entries) : bf.entries[j].key = bibkey

\* assert old == refid holds for every changed entry of the file
old_is_refid(s, sources, file_pk) ==
    LET bf == sources[bibfile(sources, s.file[file_pk].name)]
    IN  \A p \in select_changed(s, file_pk) :
            old_id(bf.entries[loaded(bf, s.entry[p].bibkey)].fields)
                = cast_text(s.entry[p].refid)

\* BibFile.save, a collaborator that is not part of the sources: the file is
\* written again with the given entries, at a later mtime
save(bf, entries) ==
    [bf EXCEPT !.entries = entries, !.mtime = @ + 1]

\* the body of the loop over the files for one file: load, set the ids, save
trickle_file(s, bf, file_pk) ==
    LET todo == select_changed(s, file_pk)
        new(j) == CHOOSE p \in todo : s.entry[p].bibkey = bf.entries[j].key
    IN  save(bf,
             [j \in 1..Len(bf.entries) |->
                 IF \E p \in todo : s.entry[p].bibkey = bf.entries[j].key
                 THEN [bf.entries[j] EXCEPT !.fields =
                          (REF_ID_FIELD :> cast_text(s.entry[new(j)].id)) @@ @]
                 ELSE bf.entries[j]])

\* the number of files the loop saves before an assertion fails, all of
\* select_files if none does
RECURSIVE trickled_files(_, _, _, _)
trickled_files(s, sources, files, n) ==
    IF n = Len(files) THEN n
    ELSE IF old_is_refid(s, sources, files[n + 1])
         THEN trickled_files(s, sources, files, n + 1)
         ELSE n

\* the sources after lines 261-280
trickle(s, sources) ==
    LET files == select_files(s)
        n == trickled_files(s, sources, files, 0)
        done == {s.file[files[k]].name : k \in 1..n}
    IN  [i \in 1..Len(sources) |->
            IF sources[i].name \in done
            THEN trickle_file(s, sources[i],
                              CHOOSE f \in 1..Len(s.file) :
                                  s.file[f].name = sources[i].name)
            ELSE sources[i]]

(***************************************************************************)
(* The state.                                                              *)
(***************************************************************************)
VARIABLES
    bibfiles,   \* the sources: name, size, mtime, priority and entries
    db,         \* the store as committed to the database file
    tx,         \* the store as the open connection sees it
    pc,         \* the position of Database.from_bibfiles
    rebuild,    \* the argument of the call, until from_bibfiles has read it
    ret,        \* how the last call ended
    built,      \* history: the sources and the store of the last rebuild
                \* that was completed, and the sources of the one before
    out         \* what the last export or lookup wrote or returned

vars == <<bibfiles, db, tx, pc, rebuild, ret, built, out>>

(***************************************************************************)
(* The sources the model is run on.                                        *)
(***************************************************************************)
Titles == {Txt(<<"a">>), Txt(<<"b">>)}
NewTitles == Titles \cup {Txt(<<"a", " ">>)}

\* the fields of an entry with the given glottolog_ref_id and title
\* (NULL, <<>>: the entry has no such field)
Fields(refid, title) ==
    LET withid == IF refid = NULL THEN <<>>
                  ELSE REF_ID_FIELD :> itoa(refid)
    IN  IF title = <<>> THEN withid ELSE ("title" :> title) @@ withid

\* entries that carry an id, and entries that are new
Variants ==
    {Fields(r, t) : r \in 1..MaxRefid, t \in Titles}
    \cup {Fields(NULL, t) : t \in NewTitles \cup {<<>>}}

BibKeys == <<Txt(<<"w">>), Txt(<<"x">>), Txt(<<"y">>), Txt(<<"z">>)>>

\* the i-th entry of the corpus is the ((i + 1) \div 2)-th entry of a.bib
\* (odd i) or of b.bib (even i)
Corpus(fields) ==
    LET n == Len(fields)
        of(parity) == {i \in 1..n : i % 2 = parity}
        entries(parity) ==
            [j \in 1..Cardinality(of(parity)) |->
                [key |-> BibKeys[j], type |-> Txt(<<"m">>),
                 fields |-> fields[2 * j - parity]]]
    IN  <<[name |-> Txt(<<"a", ".", "b", "i", "b">>), size |-> 1, mtime |-> 1,
           priority |-> 1, entries |-> entries(1)],
          [name |-> Txt(<<"b", ".", "b", "i", "b">>), size |-> 1, mtime |-> 1,
           priority |-> 2, entries |-> entries(0)]>>

Init ==
    /\ \E f \in UNION {[1..n -> Variants] : n \in 1..MaxEntries} :
        bibfiles = Corpus(f)
    /\ db = NoDb
    /\ tx = NoDb
    /\ pc = "idle"
    /\ rebuild = FALSE
    /\ ret = "none"
    /\ built = <<>>
    /\ out = <<>>

(***************************************************************************)
(* Database.from_bibfiles, one action per step.                            *)
(***************************************************************************)
\* filepath.unlink()
unlink(s) == NoDb

\* an exception leaves from_bibfiles: the connection is closed, what it did
\* not commit is rolled back
Raise(error) ==
    /\ pc' = "idle"
    /\ tx' = NoDb
    /\ ret' = error
    /\ UNCHANGED <<bibfiles, db, rebuild, built, out>>

\* a stage of assign_ids has run and the next one follows
Stage(t, next) ==
    /\ tx' = t
    /\ pc' = next
    /\ UNCHANGED <<bibfiles, db, rebuild, ret, built, out>>

\* conn.commit() after a stage of from_bibfiles
Commit(t, next) ==
    /\ tx' = t
    /\ db' = t
    /\ pc' = next
    /\ UNCHANGED <<bibfiles, rebuild, ret, built, out>>

\* Database.from_bibfiles(bibfiles, filepath, rebuild=r) is called
Call(r) ==
    /\ pc = "idle"
    /\ pc' = "from_bibfiles"
    /\ rebuild' = r
    /\ ret' = "running"
    /\ UNCHANGED <<bibfiles, db, tx, built, out>>

\* the first call, on a store that was never built
FirstCall(r) ==
    /\ ret = "none"
    /\ Call(r)

\* lines 91-94: return the store if it is up to date, else delete it
CheckUptodate ==
    /\ pc = "from_bibfiles"
    /\ rebuild' = FALSE
    /\ IF db.exists /\ ~rebuild /\ same_as(db, bibfiles)
       THEN /\ pc' = "idle"
            /\ ret' = "uptodate"
            /\ UNCHANGED <<bibfiles, db, tx, built, out>>
       ELSE /\ db' = IF db.exists THEN unlink(db) ELSE db
            /\ pc' = "create_all"
            /\ UNCHANGED <<bibfiles, tx, ret, built, out>>

\* lines 96-98
CreateAll ==
    /\ pc = "create_all"
    /\ Commit(create_all(db), "import_bibfiles")

\* lines 100-102
ImportBibfiles ==
    /\ pc = "import_bibfiles"
    /\ LET t == import_bibfiles(tx, bibfiles)
       IN  IF integrity(t) THEN Commit(t, "generate_hashes")
           ELSE Raise("IntegrityError")

\* lines 107-108
GenerateHashes ==
    /\ pc = "generate_hashes"
    /\ Commit(generate_hashes(tx), "assign_ids")

\* assign_ids, lines 815-819
ResetEntries ==
    /\ pc = "assign_ids"
    /\ IF allhash(tx) THEN Stage(reset_entries(tx), "resolve_splits")
       ELSE Raise("AssertionError allhash")

\* assign_ids, lines 821-868
ResolveSplits ==
    /\ pc = "resolve_splits"
    /\ LET t == resolve_splits(tx)
       IN  IF nosplits(t) THEN Stage(t, "resolve_merges")
           ELSE Raise("AssertionError nosplits")

\* assign_ids, lines 870-908
ResolveMerges ==
    /\ pc = "resolve_merges"
    /\ Stage(resolve_merges(tx), "update_unchanged")

\* assign_ids, lines 910-922
UpdateUnchanged ==
    /\ pc = "update_unchanged"
    /\ LET t == update_unchanged(tx)
       IN  IF nomerges(t) THEN Stage(t, "update_identified")
           ELSE Raise("AssertionError nomerges")

\* assign_ids, lines 924-935
UpdateIdentified ==
    /\ pc = "update_identified"
    /\ \E other \in [identified(tx) -> pks(tx)] :
        /\ \A p \in identified(tx) : other[p] \in identified_rows(tx, p)
        /\ Stage(update_identified(tx, other), "update_new")

\* assign_ids, lines 937-965, and the commit of line 114
UpdateNew ==
    /\ pc = "update_new"
    /\ LET t == update_new(tx)
       IN  IF ~allid(t) THEN Raise("AssertionError allid")
           ELSE IF ~onetoone(t) THEN Raise("AssertionError onetoone")
           ELSE /\ db' = t
                /\ tx' = NoDb
                /\ pc' = "idle"
                /\ ret' = "built"
                /\ built' = <<bibfiles, t,
                             IF built = <<>> THEN <<>> ELSE built[1]>>
                /\ UNCHANGED <<bibfiles, rebuild, out>>

\* one call of from_bibfiles on a new store
Next ==
    \/ \E r \in BOOLEAN : FirstCall(r)
    \/ CheckUptodate
    \/ CreateAll
    \/ ImportBibfiles
    \/ GenerateHashes
    \/ ResetEntries
    \/ ResolveSplits
    \/ ResolveMerges
    \/ UpdateUnchanged
    \/ UpdateIdentified
    \/ UpdateNew

Spec == Init /\ [][Next]_vars

(***************************************************************************)
(* Calls of from_bibfiles one after the other, on sources that change     *)
(* between the calls.                                                      *)
(***************************************************************************)
SourceVariants ==
    {Fields(1, Txt(<<"a">>)), Fields(2, Txt(<<"a">>)),
     Fields(2, Txt(<<"b">>)), Fields(NULL, Txt(<<"a", " ">>)),
     Fields(NULL, <<>>)}

EditVariants ==
    {Fields(2, Txt(<<"a">>)), Fields(NULL, Txt(<<"c">>))}

InitSources ==
    /\ \E f \in UNION {[1..n -> SourceVariants] : n \in 1..SourceEntries} :
        bibfiles = Corpus(f)
    /\ db = NoDb
    /\ tx = NoDb
    /\ pc = "idle"
    /\ rebuild = FALSE
    /\ ret = "none"
    /\ built = <<>>
    /\ out = <<>>

\* the number of changes the sources show: a later mtime, a larger size,
\* b.bib removed, c.bib added
RECURSIVE Rewrites(_)
Rewrites(sources) ==
    IF sources = <<>> THEN 0
    ELSE (Head(sources).mtime - 1) + (Head(sources).size - 1)
         + Rewrites(Tail(sources))

Changes(sources) ==
    LET names == {sources[i].name : i \in 1..Len(sources)}
    IN  Rewrites(sources)
        + (IF Txt(<<"b", ".", "b", "i", "b">>) \in names THEN 0 ELSE 1)
        + (IF Txt(<<"c", ".", "b", "i", "b">>) \in names THEN 1 ELSE 0)

\* between two calls the sources change, the store does not
Change(sources) ==
    /\ pc = "idle"
    /\ Changes(bibfiles) < MaxChanges
    /\ bibfiles' = sources
    /\ UNCHANGED <<db, tx, pc, rebuild, ret, built, out>>

\* a source is written again with the content it has
TouchSource(i) ==
    /\ bibfiles[i].mtime < MaxMtime
    /\ Change([bibfiles EXCEPT ![i].mtime = @ + 1])

\* a source gets one more entry, at the same mtime
EditSource(i, fields) ==
    /\ bibfiles[i].size < MaxSize
    /\ Change([bibfiles EXCEPT
                  ![i].size = @ + 1,
                  ![i].entries = Append(@, [key |-> BibKeys[Len(@) + 1],
                                            type |-> Txt(<<"m">>),
                                            fields |-> fields])])

\* the first entry of a source is entered a second time, under its key
DuplicateEntry(i) ==
    /\ bibfiles[i].size < MaxSize
    /\ bibfiles[i].entries # <<>>
    /\ Change([bibfiles EXCEPT
                  ![i].size = @ + 1,
                  ![i].entries = Append(@, @[1])])

\* the last source is removed
RemoveSource ==
    /\ Len(bibfiles) = 2
    /\ Change(SubSeq(bibfiles, 1, 1))

\* c.bib is added, with one entry
AddSource(fields) ==
    /\ \A i \in 1..Len(bibfiles) :
          bibfiles[i].name # Txt(<<"c", ".", "b", "i", "b">>)
    /\ Change(Append(bibfiles,
                     [name |-> Txt(<<"c", ".", "b", "i", "b">>),
                      size |-> 1, mtime |-> 1, priority |-> 3,
                      entries |-> <<[key |-> BibKeys[1],
                                     type |-> Txt(<<"m">>),
                                     fields |-> fields]>>]))

\* Database.trickle(bibfiles) is called on an existing store
CallTrickle ==
    /\ pc = "idle"
    /\ db.exists
    /\ pc' = "trickle"
    /\ ret' = "running"
    /\ UNCHANGED <<bibfiles, db, tx, rebuild, built, out>>

\* lines 239-280
Trickle ==
    /\ pc = "trickle"
    /\ IF ~allid(db) THEN Raise("AssertionError allid")
       ELSE IF ~same_as(db, bibfiles) THEN Raise("RuntimeError")
       ELSE /\ bibfiles' = trickle(db, bibfiles)
            /\ pc' = "idle"
            /\ ret' = IF trickled_files(db, bibfiles, select_files(db), 0)
                            = Len(select_files(db))
                      THEN "trickled" ELSE "AssertionError old == refid"
            /\ UNCHANGED <<db, tx, rebuild, built, out>>

NextSources ==
    \/ \E r \in BOOLEAN : Call(r)
    \/ CheckUptodate
    \/ CreateAll
    \/ ImportBibfiles
    \/ GenerateHashes
    \/ ResetEntries
    \/ ResolveSplits
    \/ ResolveMerges
    \/ UpdateUnchanged
    \/ UpdateIdentified
    \/ UpdateNew
    \/ \E i \in 1..Len(bibfiles) : TouchSource(i)
    \/ \E i \in 1..Len(bibfiles) : \E fields \in EditVariants :
          EditSource(i, fields)
    \/ \E i \in 1..Len(bibfiles) : DuplicateEntry(i)
    \/ RemoveSource
    \/ \E fields \in EditVariants : AddSource(fields)
    \/ CallTrickle
    \/ Trickle

SpecSources == InitSources /\ [][NextSources]_vars

(***************************************************************************)
(* from_bibfiles on sources in which the fields of the entries of a prior  *)
(* id or of a hash differ: entries with a title and entries with a year    *)
(* and no title.                                                           *)
(***************************************************************************)
WithYear(fields, year) == ("year" :> year) @@ fields

StageVariants ==
    {Fields(1, Txt(<<"a">>)), Fields(2, Txt(<<"a">>)),
     Fields(1, Txt(<<"b">>)), Fields(NULL, Txt(<<"a">>)),
     WithYear(Fields(1, <<>>), Txt(<<"x">>)),
     WithYear(Fields(2, <<>>), Txt(<<"x">>))}

InitStages ==
    /\ \E f \in UNION {[1..n -> StageVariants] : n \in 1..MaxEntries} :
        bibfiles = Corpus(f)
    /\ db = NoDb
    /\ tx = NoDb
    /\ pc = "idle"
    /\ rebuild = FALSE
    /\ ret = "none"
    /\ built = <<>>
    /\ out = <<>>

SpecStages == InitStages /\ [][Next]_vars

(***************************************************************************)
(* The views of a store that was built: __getitem__, __iter__ and          *)
(* to_replacements, on sources with a union field and with priorities that *)
(* are equal or differ.                                                    *)
(***************************************************************************)
WithFn(fields, fn) == ("fn" :> fn) @@ fields

ViewVariants ==
    {WithFn(Fields(1, Txt(<<"a">>)), Txt(<<"y">>)),
     WithFn(Fields(1, Txt(<<"a", " ">>)), Txt(<<"x">>)),
     Fields(1, Txt(<<"b">>)),
     WithFn(Fields(2, Txt(<<"a">>)), Txt(<<"x">>)),
     WithFn(Fields(NULL, Txt(<<"a", " ">>)), Txt(<<"y">>)),
     Fields(2, Txt(<<"b">>)),
     Fields(NULL, Txt(<<"c">>))}

ViewPriorities == 1..2

InitViews ==
    /\ \E f \in UNION {[1..n -> ViewVariants] : n \in 1..ViewEntries} :
       \E pa, pb \in ViewPriorities :
           bibfiles = [Corpus(f) EXCEPT ![1].priority = pa,
                                        ![2].priority = pb]
    /\ db = NoDb
    /\ tx = NoDb
    /\ pc = "idle"
    /\ rebuild = FALSE
    /\ ret = "none"
    /\ built = <<>>
    /\ out = <<>>

\* a view is taken of the store: the result is what the caller gets, for
\* db[key] after the kind of the key and the key
View(result) ==
    /\ pc = "idle"
    /\ db.exists
    /\ out' = result
    /\ UNCHANGED <<bibfiles, db, tx, pc, rebuild, ret, built>>

ViewNames == {Txt(<<"a", ".", "b", "i", "b">>), Txt(<<"b", ".", "b", "i", "b">>),
              Txt(<<"c", ".", "b", "i", "b">>)}

ViewHashes == {keyid(Fields(NULL, Txt(<<t>>))) : t \in {"a", "b", "c"}}

\* db[filename, bibkey]
GetEntry(name, bibkey) ==
    View(<<"tuple", <<name, bibkey>>, entry(db, name, bibkey)>>)

\* db[key] for an int
GetByRefid(key) ==
    View(<<"int", key, merged_entrygrp(db, key, by_refid(db, key))>>)

\* db[key] for a str
GetByHash(key) ==
    View(<<"str", key, merged_entrygrp(db, key, by_hash(db, key))>>)

\* list(db.__iter__(chunksize))
Iter(chunksize) ==
    View(IF ~allid(db) THEN <<"AssertionError allid">>
         ELSE IF ~onetoone(db) THEN <<"AssertionError onetoone">>
         ELSE <<"iter", chunksize, iter(db, chunksize)>>)

\* db.to_replacements(filename) for a file that does not exist yet
ToReplacements ==
    \E order \in pairs_orders(db) :
        View(<<"replacements", replacements(db, order)>>)

NextViews ==
    \/ Next
    \/ \E name \in ViewNames, i \in 1..2 : GetEntry(name, BibKeys[i])
    \/ \E key \in 1..MaxRefid : GetByRefid(key)
    \/ \E key \in ViewHashes : GetByHash(key)
    \/ \E chunksize \in 1..MaxChunk : Iter(chunksize)
    \/ ToReplacements

SpecViews == InitViews /\ [][NextViews]_vars

(***************************************************************************)
(* from_bibfiles in a process that can be killed.  The connection of lines *)
(* 100-114 runs with PRAGMA synchronous = OFF and journal_mode = MEMORY    *)
(* (lines 66-68): the rollback journal of a transaction is in the memory   *)
(* of the process, so the pages the transaction has written to the file    *)
(* when the process dies stay in the file.  Which pages these are is not   *)
(* fixed; the model has the two ends, none and all of them.                *)
(***************************************************************************)
\* the stores the file can hold after the process died at pc
persisted(committed, uncommitted, at) ==
    IF at \in {"import_bibfiles", "generate_hashes", "assign_ids",
               "resolve_splits", "resolve_merges", "update_unchanged",
               "update_identified", "update_new"}
    THEN {committed, uncommitted}
    ELSE {committed}

\* the process is killed inside from_bibfiles
Crash ==
    /\ pc \notin {"idle", "trickle"}
    /\ db' \in persisted(db, tx, pc)
    /\ tx' = NoDb
    /\ pc' = "idle"
    /\ ret' = "killed"
    /\ UNCHANGED <<bibfiles, rebuild, built, out>>

NextCrash ==
    \/ \E r \in BOOLEAN : Call(r)
    \/ Next
    \/ Crash

SpecCrash == InitSources /\ [][NextCrash]_vars

(***************************************************************************)
(* distance on its own: the dicts of up to three fields with the values    *)
(* a, b and ab.                                                            *)
(***************************************************************************)
FieldDicts ==
    UNION {[keys -> {Txt(<<"a">>), Txt(<<"b">>), Txt(<<"a", "b">>)}] :
              keys \in SUBSET {"title", "year", "fn"}}

InitDistance ==
    /\ bibfiles = <<>>
    /\ db = NoDb
    /\ tx = NoDb
    /\ pc = "idle"
    /\ rebuild = FALSE
    /\ ret = "none"
    /\ built = <<>>
    /\ out = <<>>

\* distance(left, right) is called, once
Distance(left, right) ==
    /\ out = <<>>
    /\ out' = <<"distance", left, right, distance(left, right)>>
    /\ UNCHANGED <<bibfiles, db, tx, pc, rebuild, ret, built>>

NextDistance == \E left, right \in FieldDicts : Distance(left, right)

SpecDistance == InitDistance /\ [][NextDistance]_vars

(***************************************************************************)
(* Entry.onetoone on its own: the stores of up to CheckEntries entries     *)
(* with one of two hashes and an id.                                       *)
(***************************************************************************)
CheckEntries == 3

CheckHashes == {keyid(Fields(NULL, Txt(<<t>>))) : t \in {"a", "b"}}

InitChecks ==
    /\ \E rows \in UNION {[1..n -> CheckHashes \X (1..MaxRefid)] :
                             n \in 1..CheckEntries} :
        db = [exists |-> TRUE,
              file |-> <<[name |-> Txt(<<"a", ".", "b", "i", "b">>),
                          size |-> 1, mtime |-> 1, priority |-> 1]>>,
              entry |-> [i \in 1..Len(rows) |->
                            [file_pk |-> 1, bibkey |-> BibKeys[i],
                             refid |-> NULL, hash |-> rows[i][1],
                             srefid |-> NULL, id |-> rows[i][2]]],
              value |-> [i \in 1..Len(rows) |->
                            (ENTRYTYPE :> Txt(<<"m">>))]]
    /\ bibfiles = <<>>
    /\ tx = NoDb
    /\ pc = "idle"
    /\ rebuild = FALSE
    /\ ret = "none"
    /\ built = <<>>
    /\ out = <<>>

\* Entry.onetoone(conn=conn) is called
Onetoone ==
    /\ out = <<>>
    /\ out' = <<"onetoone", onetoone(db)>>
    /\ UNCHANGED <<bibfiles, db, tx, pc, rebuild, ret, built>>

NextChecks == Onetoone

SpecChecks == InitChecks /\ [][NextChecks]_vars

(***************************************************************************)
(* Properties of assign_ids.                                               *)
(***************************************************************************)
\* the largest prior id of the store, 0 if there is none
MaxPrior(s) ==
    LET refids == {s.entry[p].refid : p \in pks(s)} \cup {0}
    IN  CHOOSE m \in refids : \A r \in refids : r <= m

\* the entries Stage 1 detached from their prior id
Detached(s) ==
    {p \in pks(s) : s.entry[p].refid # NULL /\ s.entry[p].srefid = NULL}

\* the entries without a prior id
BrandNew(s) == {p \in pks(s) : s.entry[p].refid = NULL}

Completed == ret = "built"

\* C1: after assign_ids has completed, two entries have the same hash if and
\* only if they have the same id.
C1_HashIffId ==
    Completed =>
        \A p, q \in pks(db) :
            (db.entry[p].hash = db.entry[q].hash)
                <=> (db.entry[p].id = db.entry[q].id)

\* a completed run with a splitting prior id, a merging hash, a detached
\* entry and a brand-new entry
C1_Witness ==
    /\ Completed
    /\ select_split(db) # {}
    /\ select_merge(db) # {}
    /\ Detached(db) # {}
    /\ BrandNew(db) # {}

\* C2: assign_ids leaves no entry without id: the assertion of Entry.allid
\* at its end never fails, and every entry of the store it commits has an id.
C2_EveryEntryHasId ==
    /\ ret # "AssertionError allid"
    /\ Completed => \A p \in pks(db) : db.entry[p].id # NULL

\* a completed run in which each way of getting an id was taken: merged,
\* carried forward, identified and newly minted
C2_Witness ==
    /\ Completed
    /\ \E p \in pks(db) : /\ db.entry[p].srefid # NULL
                          /\ db.entry[p].id # db.entry[p].srefid
    /\ \E p \in pks(db) : db.entry[p].id = db.entry[p].srefid
    /\ \E p \in BrandNew(db) : db.entry[p].id <= MaxPrior(db)
    /\ \E p \in pks(db) : db.entry[p].id > MaxPrior(db)

\* C3: every id Stage 5 assigns is greater than every prior id of the store
\* (and at least 1), so it is no entry's prior id.
C3_MintedAbovePrior ==
    [][(pc = "update_new" /\ ret' = "built") =>
          \A p \in pks(tx) :
              db'.entry[p].id # tx.entry[p].id =>
                  /\ db'.entry[p].id > MaxPrior(tx)
                  /\ db'.entry[p].id >= 1
                  /\ \A q \in pks(tx) :
                        db'.entry[p].id # tx.entry[q].refid]_vars

\* a completed run with prior ids in which an id was minted
C3_Witness ==
    /\ Completed
    /\ MaxPrior(db) > 0
    /\ \E p \in pks(db) : db.entry[p].id > MaxPrior(db)

\* C4: after Stage 1 no two entries with the same srefid differ in their
\* hash, and the assertion that says so never fails.
C4_NoSplitsAfterStage1 ==
    /\ ret # "AssertionError nosplits"
    /\ pc = "resolve_merges" =>
          \A p, q \in pks(tx) :
              (tx.entry[p].srefid # NULL
               /\ tx.entry[p].srefid = tx.entry[q].srefid)
                  => tx.entry[p].hash = tx.entry[q].hash

\* Stage 1 has run on a store with two splitting prior ids
C4_Witness ==
    /\ pc = "resolve_merges"
    /\ Cardinality({tx.entry[p].refid : p \in select_split(tx)}) >= 2
    /\ Detached(tx) # {}

\* C5: after generate_hashes every entry has a hash.
C5_EveryEntryHashed ==
    pc = "assign_ids" => \A p \in pks(tx) : tx.entry[p].hash # NoHash

\* C6: when assign_ids has completed, every entry with a merging hash has the
\* srefid chosen for that hash as its id.
C6_MergedIntoChosen ==
    Completed =>
        \A p \in select_merge(db) : \A q \in pks(db) :
            db.entry[q].hash = db.entry[p].hash
                => db.entry[q].id = merge_old(db, db.entry[p].hash)

\* C7: a prior id whose entries have one hash, a hash no entry with another
\* prior id has, is the id of all its entries in the end.
C7_Unaffected(s, P) ==
    /\ \A p, q \in by_refid(s, P) : s.entry[p].hash = s.entry[q].hash
    /\ \A p \in by_refid(s, P) : \A q \in pks(s) :
          s.entry[q].hash = s.entry[p].hash
              => s.entry[q].refid \in {P, NULL}

C7_StableIdentity ==
    Completed =>
        \A P \in 1..MaxPrior(db) :
            (C7_Unaffected(db, P) /\ by_refid(db, P) # {})
                => \A p \in by_refid(db, P) : db.entry[p].id = P

\* a completed run with an unaffected prior id, whose hash a brand-new entry
\* shares, next to prior ids that are merged
C7_Witness ==
    /\ Completed
    /\ select_merge(db) # {}
    /\ \E P \in 1..MaxPrior(db) :
        /\ C7_Unaffected(db, P)
        /\ \E p \in by_refid(db, P) : \E q \in BrandNew(db) :
              db.entry[q].hash = db.entry[p].hash

\* C8: an entry detached in Stage 1 ends with a minted id, which is not its
\* prior id, and of every prior id the entries of exactly one hash keep it
\* as their srefid.
C8_DetachedGetMinted ==
    Completed =>
        /\ \A p \in Detached(db) :
              /\ db.entry[p].id # db.entry[p].refid
              /\ db.entry[p].id > MaxPrior(db)
        /\ \A P \in 1..MaxPrior(db) :
              by_refid(db, P) # {} =>
                  \E p \in by_refid(db, P) :
                      \A q \in by_refid(db, P) :
                          (db.entry[q].srefid = P)
                              <=> (db.entry[q].hash = db.entry[p].hash)

\* a completed run in which a detached entry shares its hash with an entry
\* that kept its prior id
C8_Witness ==
    /\ Completed
    /\ \E p \in Detached(db) : \E q \in pks(db) :
          /\ db.entry[q].hash = db.entry[p].hash
          /\ db.entry[q].srefid # NULL

(***************************************************************************)
(* Properties of from_bibfiles.                                            *)
(***************************************************************************)
\* the (name, size, mtime) triples of a sequence of files
Triples(files) ==
    {<<files[i].name, files[i].size, files[i].mtime>> : i \in 1..Len(files)}

\* lines 96-114 run on no store: the store from_bibfiles builds from the
\* sources alone
rebuilt(sources) ==
    LET imported == import_bibfiles(create_all(NoDb), sources)
        hashed == generate_hashes(imported)
        splitted == resolve_splits(reset_entries(hashed))
        unchanged == update_unchanged(resolve_merges(splitted))
        other == CHOOSE o \in [identified(unchanged) -> pks(unchanged)] :
                     \A p \in identified(unchanged) :
                         o[p] \in identified_rows(unchanged, p)
    IN  update_new(update_identified(unchanged, other))

C10_RebuildIffStale ==
    [][/\ pc = "from_bibfiles" =>
            IF db.exists /\ ~rebuild /\ Triples(db.file) = Triples(bibfiles)
            THEN db' = db /\ tx' = tx /\ pc' = "idle"
            ELSE ~db'.exists /\ pc' = "create_all"
       /\ (pc = "update_new" /\ ret' = "built")
            => db' = rebuilt(bibfiles)]_vars

\* a call returned the store of a rebuild as it was, a rebuild that followed
\* one over sources with other triples
C10_Witness ==
    /\ ret = "uptodate"
    /\ built # <<>>
    /\ built[3] # <<>>
    /\ Triples(built[3]) # Triples(built[1])
    /\ db = built[2]
    /\ Len(db.entry) >= 3

(***************************************************************************)
(* Properties of trickle and of the import.                                *)
(***************************************************************************)
\* the entry of the sources a store entry was imported from
SourceEntry(sources, s, p) ==
    LET bf == sources[bibfile(sources, filename(s, p))]
    IN  bf.entries[loaded(bf, s.entry[p].bibkey)]

\* C11: trickle on a store whose (name, size, mtime) triples are not those
\* of the sources ends in an error and leaves every source as it is.
C11_StaleTrickleFails ==
    [][(pc = "trickle" /\ Triples(db.file) # Triples(bibfiles))
          => /\ ret' \in {"RuntimeError", "AssertionError allid"}
             /\ bibfiles' = bibfiles]_vars

\* trickle raised RuntimeError on a resolved store that has ids to write
C11_Witness ==
    /\ ret = "RuntimeError"
    /\ allid(db)
    /\ select_files(db) # <<>>
    /\ Triples(db.file) # Triples(bibfiles)

\* C12: a trickle that succeeds saves exactly the sources with an entry
\* whose id is not its refid (a NULL refid is not its id), leaves the other
\* sources as they are, and then every entry of every source carries its id
\* in the field glottolog_ref_id.
C12_TrickleWritesIds ==
    [][(pc = "trickle" /\ ret' = "trickled")
          => /\ Len(bibfiles') = Len(bibfiles)
             /\ \A i \in 1..Len(bibfiles) :
                   IF \E p \in pks(db) :
                          /\ filename(db, p) = bibfiles[i].name
                          /\ db.entry[p].id # db.entry[p].refid
                   THEN bibfiles'[i].mtime > bibfiles[i].mtime
                   ELSE bibfiles'[i] = bibfiles[i]
             /\ \A p \in pks(db) :
                   LET fields == SourceEntry(bibfiles', db, p).fields
                   IN  /\ REF_ID_FIELD \in DOMAIN fields
                       /\ atoi(fields[REF_ID_FIELD]) = db.entry[p].id]_vars

\* a trickle succeeded that saved one source and left another, and wrote
\* the id of a new entry and a changed id
C12_Witness ==
    /\ ret = "trickled"
    /\ Len(bibfiles) >= 2
    /\ \E i, j \in 1..Len(bibfiles) :
          bibfiles[i].mtime > 1 /\ bibfiles[j].mtime = 1
    /\ \E p \in pks(db) : db.entry[p].refid = NULL
    /\ \E p \in pks(db) : /\ db.entry[p].refid # NULL
                          /\ db.entry[p].refid # db.entry[p].id

\* two entries of one source have the same key
DuplicateKey(sources) ==
    \E i \in 1..Len(sources) : \E j, k \in 1..Len(sources[i].entries) :
        j # k /\ sources[i].entries[j].key = sources[i].entries[k].key

\* C14: the import of sources of which one has two entries with the same key
\* ends in an IntegrityError and commits no file, entry or value; a key that
\* two sources share does not make the import fail.
C14_DuplicateKeyIsFatal ==
    [][pc = "import_bibfiles"
          => IF DuplicateKey(bibfiles)
             THEN /\ ret' = "IntegrityError"
                  /\ db' = db
                  /\ db'.file = <<>> /\ db'.entry = <<>> /\ db'.value = <<>>
             ELSE /\ ret' # "IntegrityError"
                  /\ Len(db'.entry) = Len(iterentries(bibfiles, 1))]_vars

\* an import failed on a source with a duplicate key, next to a source that
\* has the same key once
C14_Witness ==
    /\ ret = "IntegrityError"
    /\ DuplicateKey(bibfiles)
    /\ \E i, j \in 1..Len(bibfiles) :
          /\ i # j
          /\ bibfiles[i].entries # <<>> /\ bibfiles[j].entries # <<>>
          /\ bibfiles[i].entries[1].key = bibfiles[j].entries[1].key

\* C13, as the code has it: the values the import stores for an entry are
\* its ENTRYTYPE under that name and every field of the entry, its
\* glottolog_ref_id among them, which is stored as Entry.refid as well.
C13_AllFieldsAreValues ==
    \A p \in pks(db) :
        LET e == SourceEntry(bibfiles, db, p)
        IN  /\ DOMAIN db.value[p] = {ENTRYTYPE} \cup DOMAIN e.fields
            /\ db.value[p][ENTRYTYPE] = e.type
            /\ \A f \in DOMAIN e.fields : db.value[p][f] = e.fields[f]
            /\ db.entry[p].refid =
                  IF REF_ID_FIELD \in DOMAIN e.fields
                  THEN atoi(e.fields[REF_ID_FIELD]) ELSE NULL

\* the import is committed, of an entry with a glottolog_ref_id and of one
\* without
C13_Witness ==
    /\ pc = "generate_hashes"
    /\ \E p \in pks(db) : REF_ID_FIELD \in DOMAIN db.value[p]
    /\ \E p \in pks(db) : db.entry[p].refid = NULL

\* C13, as stated: the values the import stores for an entry are its
\* ENTRYTYPE and its fields without glottolog_ref_id, which is stored as
\* Entry.refid only.
C13_PriorIdNotAValue ==
    \A p \in pks(db) :
        /\ ENTRYTYPE \in DOMAIN db.value[p]
        /\ REF_ID_FIELD \notin DOMAIN db.value[p]

(***************************************************************************)
(* Properties of the views.                                                *)
(***************************************************************************)
\* C15: the redirect table to_replacements writes is a mapping: each of its
\* pairs is (prior id, id) of an entry whose id is not its prior id, and no
\* prior id is paired with two ids.
C15_ReplacementsAreMapping ==
    (out # <<>> /\ out[1] = "replacements")
        => /\ \A i \in 1..Len(out[2]) :
                 /\ out[2][i].id # out[2][i].replacement
                 /\ \E p \in pks(db) :
                       /\ db.entry[p].refid = out[2][i].id
                       /\ db.entry[p].id = out[2][i].replacement
           /\ \A i, j \in 1..Len(out[2]) :
                 out[2][i].id = out[2][j].id
                     => out[2][i].replacement = out[2][j].replacement

\* db[key] returned the merged view of the entries Selected
MergedView ==
    out # <<>> /\ out[1] \in {"int", "str"} /\ out[3][1] = "entry"

\* the entries a key of db[key] selects
Selected ==
    IF out[1] = "int" THEN {p \in pks(db) : db.entry[p].refid = out[2]}
    ELSE {p \in pks(db) : db.entry[p].hash = out[2]}

\* p comes before q by priority (the higher first), then by the name of the
\* source, then by the key
Precedes(p, q) ==
    LET fp == db.file[db.entry[p].file_pk]
        fq == db.file[db.entry[q].file_pk]
    IN  \/ fp.priority > fq.priority
        \/ /\ fp.priority = fq.priority
           /\ \/ TextLess(fp.name, fq.name)
              \/ fp.name = fq.name
                 /\ TextLess(db.entry[p].bibkey, db.entry[q].bibkey)

\* the entries Selected that have the field f
Having(f) == {p \in Selected : f \in DOMAIN db.value[p]}

\* the first of the entries Selected that have the value v of f
FirstWith(f, v) ==
    CHOOSE p \in Having(f) :
        /\ db.value[p][f] = v
        /\ \A q \in Having(f) \ {p} : db.value[q][f] = v => Precedes(p, q)

C17_FirstByPriority ==
    MergedView =>
        /\ \A f \in DOMAIN out[3][4] \ (UNION_FIELDS \cup {"src", "srctrickle"}) :
              \E p \in Having(f) :
                  /\ \A q \in Having(f) \ {p} : Precedes(p, q)
                  /\ out[3][4][f] = db.value[p][f]
        /\ \A p \in Selected :
              \A f \in DOMAIN db.value[p] \ (IGNORE_FIELDS \cup {ENTRYTYPE}) :
                  f \in DOMAIN out[3][4]

\* the title of a view is that of an entry p, while an entry of another
\* source with the priority of the source of p, and another entry of the
\* source of p, have another title
C17_Witness ==
    /\ MergedView
    /\ \E p, q, r \in Selected :
          /\ out[3][4]["title"] = db.value[p]["title"]
          /\ db.value[q]["title"] # db.value[p]["title"]
          /\ db.value[r]["title"] # db.value[p]["title"]
          /\ db.entry[q].file_pk # db.entry[p].file_pk
          /\ db.file[db.entry[q].file_pk].priority
                 = db.file[db.entry[p].file_pk].priority
          /\ db.entry[r].file_pk = db.entry[p].file_pk
          /\ r # p

\* C18: for every chunksize, __iter__ yields one group for every id of the
\* store and no other, and the group of an id has every value of every entry
\* with that id, once.
C18_OneGroupPerId ==
    (out # <<>> /\ out[1] = "iter")
        => LET yields == out[3]
               ids == {db.entry[p].id : p \in pks(db)}
           IN  /\ Len(yields) = Cardinality(ids)
               /\ {yields[i][1] : i \in 1..Len(yields)} = ids
               /\ \A i \in 1..Len(yields) :
                     LET rows == yields[i][3]
                     IN  /\ {rows[k] : k \in 1..Len(rows)}
                               = {r \in pks(db) \X {"ENTRYTYPE", "fn", "title",
                                                    "glottolog_ref_id"} :
                                     /\ db.entry[r[1]].id = yields[i][1]
                                     /\ r[2] \in DOMAIN db.value[r[1]]}
                         /\ \A k, l \in 1..Len(rows) :
                               rows[k] = rows[l] => k = l
                         /\ \A p \in pks(db) :
                               db.entry[p].id = yields[i][1]
                                   => db.entry[p].hash = yields[i][2]

\* __iter__ ran with chunksize 2 on a store with three ids: two windows, the
\* second of one id
C18_Witness ==
    /\ out # <<>> /\ out[1] = "iter"
    /\ out[2] = 2
    /\ Len(out[3]) = 3

\* the entries the key of the last db[key] matches
Matches ==
    CASE out[1] = "tuple" ->
            {p \in pks(db) : /\ db.file[db.entry[p].file_pk].name = out[2][1]
                             /\ db.entry[p].bibkey = out[2][2]}
      [] out[1] = "int" -> {p \in pks(db) : db.entry[p].refid = out[2]}
      [] out[1] = "str" -> {p \in pks(db) : db.entry[p].hash = out[2]}

\* C19: db[key] for a key that matches no entry raises KeyError with the key,
\* for a key that matches one it returns the key and an entry with a type;
\* no read of the store changes the store or the sources.
C19_MissRaisesKeyError ==
    /\ []((out # <<>> /\ out[1] \in {"tuple", "int", "str"})
            => IF Matches = {} THEN out[3] = <<"KeyError", out[2]>>
               ELSE /\ out[3][1] = "entry"
                    /\ out[3][2] = out[2]
                    /\ out[3][3] # <<>>)
    /\ [][(pc = "idle" /\ pc' = "idle")
             => (db' = db /\ bibfiles' = bibfiles)]_vars

\* db[key] raised KeyError for an int that is the id of an entry and the
\* prior id of none
C19_Witness ==
    /\ out # <<>> /\ out[1] = "int"
    /\ out[3][1] = "KeyError"
    /\ \E p \in pks(db) : db.entry[p].id = out[2]

(***************************************************************************)
(* Properties of an interrupted from_bibfiles.                             *)
(***************************************************************************)
\* the store is what a commit of from_bibfiles on the sources leaves (lines
\* 98, 102, 108, 114), or there is no store
AtStageBoundary(s, sources) ==
    LET schema == create_all(NoDb)
        imported == import_bibfiles(schema, sources)
        hashed == generate_hashes(imported)
    IN  \/ ~s.exists
        \/ s = schema
        \/ s = imported
        \/ s = hashed
        \/ /\ s.exists /\ s.file = hashed.file /\ s.value = hashed.value
           /\ Len(s.entry) = Len(hashed.entry)
           /\ \A p \in pks(s) : s.entry[p].id # NULL

\* C20: after from_bibfiles was interrupted, the store is the one of the
\* last commit: the schema, the import, the hashes or the resolution, and
\* never a part of one of these.
C20_AtStageBoundary ==
    ret = "killed" => AtStageBoundary(db, bibfiles)

(***************************************************************************)
(* Properties of distance.                                                 *)
(***************************************************************************)
\* distance was called on two dicts without a common key
DisjointCall ==
    /\ out # <<>> /\ out[1] = "distance"
    /\ DOMAIN out[2] \cap DOMAIN out[3] = {}

\* C21: the distance of two dicts without a common key is 1, unless both
\* are empty: then it is 0.
C21_DisjointIsOne ==
    DisjointCall =>
        IF DOMAIN out[2] = {} /\ DOMAIN out[3] = {} THEN out[4] = <<0, 1>>
        ELSE out[4] = <<1, 1>>

\* the distance of two dicts with fields and without a common key is 1
C21_Witness ==
    /\ DisjointCall
    /\ DOMAIN out[2] # {} /\ DOMAIN out[3] # {}
    /\ out[4] = <<1, 1>>

\* C21 as stated: 1 for every two dicts without a common key
C21_DisjointAlwaysOne ==
    DisjointCall => out[4] = <<1, 1>>

(***************************************************************************)
(* Properties of the stages of assign_ids.                                 *)
(***************************************************************************)
\* the hashes of the entries with the prior id P
HashesOf(s, P) == {s.entry[p].hash : p \in by_refid(s, P)}

\* the distance of the view of the entries with the prior id P to the view
\* of the entries with the hash h
SplitDistance(s, P, h) ==
    distance(merged_entry(s, by_refid(s, P)), merged_entry(s, by_hash(s, h)))

\* h is the hash of P that is nearest, the lowest of the nearest
Nearest(s, P, h) ==
    \A g \in HashesOf(s, P) \ {h} :
        \/ fless(SplitDistance(s, P, h), SplitDistance(s, P, g))
        \/ /\ SplitDistance(s, P, h) = SplitDistance(s, P, g)
           /\ TextLess(h, g)

\* C22: Stage 1 leaves the srefid P to the entries of one hash of a splitting
\* prior id P, the hash whose view is nearest to the view of the entries with
\* the prior id P and the lowest hash among the nearest; the other entries
\* with the prior id P get a NULL srefid, and the entries of a prior id with
\* one hash keep it as their srefid.
C22_NearestHashKeeps ==
    [][(pc = "resolve_splits" /\ pc' = "resolve_merges") =>
          /\ \A P \in 1..MaxPrior(tx) :
                IF Cardinality(HashesOf(tx, P)) > 1
                THEN \E h \in HashesOf(tx, P) :
                        /\ Nearest(tx, P, h)
                        /\ \A p \in by_refid(tx, P) :
                              tx'.entry[p].srefid =
                                  IF tx.entry[p].hash = h THEN P ELSE NULL
                ELSE \A p \in by_refid(tx, P) : tx'.entry[p].srefid = P
          /\ \A p \in pks(tx) :
                tx'.entry[p] = [tx.entry[p] EXCEPT
                                   !.srefid = tx'.entry[p].srefid]]_vars

\* Stage 1 has left a prior id to the lower of two hashes at the same
\* distance
C22_Witness ==
    /\ pc = "resolve_merges"
    /\ \E P \in 1..MaxPrior(tx) : \E h, g \in HashesOf(tx, P) :
          /\ TextLess(h, g)
          /\ SplitDistance(tx, P, h) = SplitDistance(tx, P, g)
          /\ \A p \in by_refid(tx, P) :
                tx.entry[p].srefid = IF tx.entry[p].hash = h THEN P ELSE NULL

\* the srefids of the entries with the hash h
SrefidsOf(s, h) == {s.entry[p].srefid : p \in by_hash(s, h)} \ {NULL}

\* the distance of the view of the entries with the hash h to the view of
\* the entries with the prior id S
MergeDistance(s, h, S) ==
    distance(merged_entry(s, by_hash(s, h)), merged_entry(s, by_refid(s, S)))

\* Stage 2 gives the id S to the entries of the merging hash h that have
\* another srefid, and no id to the others
MergedInto(s, t, h, S) ==
    \A p \in by_hash(s, h) :
        t.entry[p] = IF s.entry[p].srefid \notin {NULL, S}
                     THEN [s.entry[p] EXCEPT !.id = S]
                     ELSE s.entry[p]

C24_MintedForNullOnly ==
    [][(pc = "update_new" /\ ret' = "built") =>
          \A p \in pks(tx) :
              tx.entry[p].id # NULL => db'.entry[p].id = tx.entry[p].id]_vars

\* the ids of the entries that have the hash of p and an id
IdsOfHash(s, p) ==
    {s.entry[q].id : q \in {r \in pks(s) : /\ s.entry[r].hash = s.entry[p].hash
                                            /\ s.entry[r].id # NULL}}

\* C25: Stage 4 gives every entry without prior id whose hash has an entry
\* with an id that id, and changes nothing else: an entry with a prior id,
\* detached in Stage 1 or not, is left as it is.
C25_NewAdoptId ==
    [][(pc = "update_identified" /\ pc' = "update_new") =>
          \A p \in pks(tx) :
              IF tx.entry[p].refid = NULL /\ IdsOfHash(tx, p) # {}
              THEN /\ IdsOfHash(tx, p) = {tx'.entry[p].id}
                   /\ tx'.entry[p] = [tx.entry[p] EXCEPT
                                         !.id = tx'.entry[p].id]
              ELSE tx'.entry[p] = tx.entry[p]]_vars

\* Stage 4 has given an entry without prior id the id of its hash, and has
\* left without id a detached entry whose hash has an id
C25_Witness ==
    /\ pc = "update_new"
    /\ \E p \in BrandNew(tx) : tx.entry[p].id # NULL
    /\ \E p \in Detached(tx) :
          tx.entry[p].id = NULL /\ IdsOfHash(tx, p) # {}

\* the hashes that have an entry without id
Remaining(s) == {s.entry[p].hash : p \in {q \in pks(s) : s.entry[q].id = NULL}}

\* the number of the hashes of H that are lower than h
Rank(H, h) == Cardinality({g \in H : TextLess(g, h)})

\* C26: Stage 5 gives the entries of the k-th lowest of the hashes that have
\* an entry without id the id max(refid) + k: one id for a hash, the ids
\* consecutive from max(refid) + 1, in ascending order of the hashes.
C26_MintedAscending ==
    [][(pc = "update_new" /\ ret' = "built") =>
          \A p \in pks(tx) :
              tx.entry[p].hash \in Remaining(tx) =>
                  db'.entry[p].id = MaxPrior(tx) + 1
                                     + Rank(Remaining(tx), tx.entry[p].hash)]_vars

\* a build has minted two ids, the lower one for the lower hash
C26_Witness ==
    /\ Completed
    /\ \E p, q \in pks(db) :
          /\ TextLess(db.entry[p].hash, db.entry[q].hash)
          /\ db.entry[p].id = MaxPrior(db) + 1
          /\ db.entry[q].id = MaxPrior(db) + 2

(***************************************************************************)
(* Properties of the store that from_bibfiles returns.                     *)
(***************************************************************************)
\* C27: a store that from_bibfiles returns, after a build or because it is
\* up to date, has a hash and an id on every entry.
C27_ReturnedStoreResolved ==
    ret \in {"built", "uptodate"} => allhash(db) /\ allid(db)

(***************************************************************************)
(* Properties of Entry.onetoone.                                           *)
(***************************************************************************)
\* no two entries with the same hash and different ids, and no two entries
\* with the same id and different hashes
Bijective(s) ==
    \A p, q \in pks(s) :
        (s.entry[p].hash = s.entry[q].hash) <=> (s.entry[p].id = s.entry[q].id)

\* C28: Entry.onetoone is false for a store in which every entry has a hash
\* and an id and in which two entries have the same hash and different ids,
\* or the same id and different hashes.
C28_OnetooneDetects ==
    (out # <<>> /\ out[1] = "onetoone" /\ allhash(db) /\ allid(db)
        /\ ~Bijective(db)) => out[2] = FALSE

(***************************************************************************)
(* Properties of the ids a build ends with.                                *)
(***************************************************************************)
\* the entries of the hash of p that have the prior id n
Carriers(s, p, n) ==
    {q \in pks(s) : s.entry[q].hash = s.entry[p].hash /\ s.entry[q].refid = n}

\* C29: an id a build ends with that is not above the highest prior id is
\* the prior id of an entry with the same hash.
C29_OldIdHasCarrier ==
    Completed =>
        \A p \in pks(db) :
            db.entry[p].id <= MaxPrior(db) =>
                Carriers(db, p, db.entry[p].id) # {}

\* a build has given an entry the prior id of another entry of its hash, and
\* that id is not the prior id of the entry itself
C29_Witness ==
    /\ Completed
    /\ \E p \in pks(db) :
          /\ db.entry[p].id <= MaxPrior(db)
          /\ db.entry[p].refid # db.entry[p].id
          /\ Carriers(db, p, db.entry[p].id) # {}

(***************************************************************************)
(* Properties of a rebuild after trickle.                                  *)
(***************************************************************************)
\* the entries of s are those of the store t, with the same hashes, and the
\* prior id of each is the id it has in t
Trickled(s, t) ==
    /\ t.exists /\ allid(t)
    /\ Len(s.entry) = Len(t.entry)
    /\ \A p \in pks(s) :
          /\ s.entry[p].file_pk = t.entry[p].file_pk
          /\ s.entry[p].bibkey = t.entry[p].bibkey
          /\ s.entry[p].hash = t.entry[p].hash
          /\ s.entry[p].refid = t.entry[p].id

\* assign_ids runs on entries whose prior ids are the ids of the last store
\* that was built
OnTrickled ==
    /\ pc \in {"resolve_splits", "resolve_merges", "update_unchanged",
               "update_identified", "update_new"}
    /\ built # <<>>
    /\ Trickled(tx, built[2])

\* C30: when the prior ids of the entries are the ids a completed build gave
\* to the same entries with the same hashes, assign_ids finds no split and
\* no merge and mints no id, and it ends with id = refid on every entry and
\* without a pair of to_replacements.
C30_Fixpoint ==
    [][OnTrickled =>
          /\ pc = "resolve_splits" => select_split(tx) = {}
          /\ pc = "resolve_merges" => select_merge(tx) = {}
          /\ pc = "update_new" =>
                /\ select_new(tx) = <<>>
                /\ ret' = "built"
                /\ \A p \in pks(db') : db'.entry[p].id = db'.entry[p].refid
                /\ select_pairs(db') = {}]_vars

\* a build has completed on the sources that trickle wrote from the store of
\* the build before, a store in which an id differed from the prior id
C30_Witness ==
    /\ Completed
    /\ built[3] # <<>>
    /\ LET last == rebuilt(built[3])
       IN  /\ Trickled(db, last)
           /\ bibfiles = trickle(last, built[3])
           /\ select_pairs(last) # {}
    /\ \A p \in pks(db) : db.entry[p].id = db.entry[p].refid

=============================================================================
